---- MODULE Spec2Model ----
(***************************************************************************)
(* GIFME: a PyQt6 shell (VideoConverterApp) that starts a background       *)
(* thread (VideoConverterWorker) converting every video of a directory to  *)
(* a GIF with ffmpeg, and renders the worker's three signals.              *)
(*                                                                         *)
(* File names are sequences of one-character strings, so that lower(),     *)
(* endswith() and splitext() are computed and not assumed.  Messages are   *)
(* tuples <<template, arguments...>> standing for the formatted text.      *)
(***************************************************************************)
EXTENDS Naturals, Sequences, FiniteSets

----------------------------------------------------------------------------
(* Bounds of the model. *)

\* worker instances created over the life of the window
MaxRuns == 2
\* entries in the directory listing os.listdir returns
MaxListing == 3
\* "No directory selected." lines one log may hold (repeated cancels)
MaxCancelLines == 1
\* entries in a listing drawn from TestNames
MaxNames == 2

Dirs == {"dirA", "dirB"}

----------------------------------------------------------------------------
(* Pure helpers: str.lower, str.endswith, os.path.splitext, os.path.join. *)

UpperChars == <<"A","B","C","D","E","F","G","H","I","J","K","L","M",
                "N","O","P","Q","R","S","T","U","V","W","X","Y","Z">>
LowerChars == <<"a","b","c","d","e","f","g","h","i","j","k","l","m",
                "n","o","p","q","r","s","t","u","v","w","x","y","z">>

LowerChar(c) ==
    IF \E k \in 1..Len(UpperChars) : UpperChars[k] = c
    THEN LowerChars[CHOOSE k \in 1..Len(UpperChars) : UpperChars[k] = c]
    ELSE c

lower(s) == [k \in 1..Len(s) |-> LowerChar(s[k])]

endswith(s, suffix) ==
    /\ Len(s) >= Len(suffix)
    /\ SubSeq(s, Len(s) - Len(suffix) + 1, Len(s)) = suffix

\* self.video_extensions with '.gif' among them
VideoExtensions_WithGif ==
    << <<".","m","p","4">>, <<".","m","k","v">>, <<".","a","v","i">>,
       <<".","m","o","v">>, <<".","w","e","b","m">>, <<".","f","l","v">>,
       <<".","w","m","v">>, <<".","g","i","f">> >>

\* self.video_extensions
video_extensions ==
    << <<".","m","p","4">>, <<".","m","k","v">>, <<".","a","v","i">>,
       <<".","m","o","v">>, <<".","w","e","b","m">>, <<".","f","l","v">>,
       <<".","w","m","v">> >>

\* filename.endswith(self.video_extensions), the .lower() forgotten
IsVideo_CaseSensitive(filename) ==
    \E e \in 1..Len(video_extensions) : endswith(filename, video_extensions[e])

\* filename.lower().endswith(self.video_extensions)
IsVideo(filename) ==
    \E e \in 1..Len(video_extensions) : endswith(lower(filename), video_extensions[e])

\* the first pass: the entries that are videos, in listing order
Candidates(listing) == SelectSeq(listing, IsVideo)

\* index of the last "." of s, 0 when there is none
LastDot(s) ==
    IF \E k \in 1..Len(s) : s[k] = "."
    THEN CHOOSE k \in 1..Len(s) : s[k] = "." /\ \A j \in (k+1)..Len(s) : s[j] # "."
    ELSE 0

\* os.path.splitext(filename)[0]: cut at the last dot, unless only dots precede it
splitext_root(s) ==
    LET d == LastDot(s) IN
    IF d > 0 /\ \E j \in 1..(d-1) : s[j] # "."
    THEN SubSeq(s, 1, d - 1)
    ELSE s

\* os.path.splitext(filename)[0] + '.gif'
OutputFilename(filename) == splitext_root(filename) \o <<".","g","i","f">>

\* os.path.join(directory, filename), for a bare file name
join(directory, filename) == <<directory, filename>>

----------------------------------------------------------------------------
(* The directory listings the environment may return. *)

EntryStems == <<"1","2","3","4","5","6","7","8","9">>
EntryExts == << <<".","t","x","t">>, <<".","M","P","4">>, <<".","m","k","v">>,
               <<".","A","v","i">> >>

\* the j-th entry: 1.txt, 2.MP4, 3.mkv, 4.Avi, 5.txt, ...
DirEntry(j) == <<EntryStems[j]>> \o EntryExts[((j - 1) % Len(EntryExts)) + 1]

Listing(n) == [j \in 1..n |-> DirEntry(j)]

\* names that exercise the filter and the output name: a.mp4, a.mkv, c.MP4,
\* n.txt, a.gif, .wmv (nothing before the dot), mp4 (no dot)
TestNames ==
    { <<"a",".","m","p","4">>, <<"a",".","m","k","v">>, <<"c",".","M","P","4">>,
      <<"n",".","t","x","t">>, <<"a",".","g","i","f">>, <<".","w","m","v">>,
      <<"m","p","4">> }

\* the listings of at most MaxNames of them; a directory holds a name once
NameListings ==
    UNION { { l \in [1..n -> TestNames] : \A j, k \in 1..n : j # k => l[j] # l[k] }
            : n \in 0..MaxNames }

----------------------------------------------------------------------------
(* State. *)

VARIABLES
    \* VideoConverterApp
    directory_path,   \* self.directory_path, "" when none is stored
    path_display,     \* text of the read-only path field
    browse_enabled,   \* self.browse_button.isEnabled()
    convert_enabled,  \* self.convert_button.isEnabled()
    log_output,       \* lines of the log, oldest first
    status_label,     \* text of the status line
    worker_thread,    \* self.worker_thread: 0 for None, else the worker's id
    dialogs,          \* open modal message boxes, innermost last
    \* runtime
    nworkers,         \* VideoConverterWorker instances created so far
    workers,          \* id -> the worker's fields and position in run()
    queue,            \* signal emissions posted to the GUI thread, oldest first
    aborted,          \* the process was terminated by the runtime
    \* history, read by the properties only
    emitted,          \* id -> the events the worker emitted, in order
    handled           \* id -> the events of that worker the shell handled, in order

shellVars == <<directory_path, path_display, browse_enabled, convert_enabled,
               log_output, status_label, worker_thread, dialogs, nworkers, handled>>
vars == <<directory_path, path_display, browse_enabled, convert_enabled,
          log_output, status_label, worker_thread, dialogs, nworkers,
          workers, queue, aborted, emitted, handled>>

Runs == 1..MaxRuns

\* a worker that has not been created; invoked (the commands run), results
\* (their outcomes), preflight (its outcome) and listing (what os.listdir
\* returned) are history, read by the properties only
NoWorker ==
    [pc |-> "none", directory_path |-> "", video_files |-> <<>>,
     total_videos |-> 0, converted_count |-> 0, i |-> 0,
     preflight |-> "none", invoked |-> <<>>, results |-> <<>>,
     listing |-> <<>>]

\* VideoConverterWorker(directory_path), started: about to enter run()
NewWorker(directory) == [NoWorker EXCEPT !.pc = "preflight", !.directory_path = directory]

Event(kind, r, msg) == [kind |-> kind, run |-> r, msg |-> msg]

\* the window after VideoConverterApp.__init__ and _init_ui
Init ==
    /\ directory_path = ""
    /\ path_display = ""
    /\ browse_enabled = TRUE
    /\ convert_enabled = FALSE
    /\ log_output = <<>>
    /\ status_label = "Ready."
    /\ worker_thread = 0
    /\ dialogs = <<>>
    /\ nworkers = 0
    /\ workers = [r \in Runs |-> NoWorker]
    /\ queue = <<>>
    /\ aborted = FALSE
    /\ emitted = [r \in Runs |-> <<>>]
    /\ handled = [r \in Runs |-> <<>>]

----------------------------------------------------------------------------
(* VideoConverterWorker.run, one step per blocking call. *)

\* _is_ffmpeg_installed without check=True: a failing version query passes
IsFfmpegInstalled_Unchecked(outcome) == outcome \in {"ok", "nonzero"}

\* _is_ffmpeg_installed: the result for an outcome of `ffmpeg -version` that it
\* handles ("ok", "nonzero" = CalledProcessError, "notfound" = FileNotFoundError)
_is_ffmpeg_installed(outcome) == outcome = "ok"

\* lines 26-29: the worker after the preflight check
AfterPreflight(wr, outcome) ==
    [wr EXCEPT !.preflight = outcome,
               !.pc = IF _is_ffmpeg_installed(outcome) THEN "listdir" ELSE "returned"]

PreflightEvents(r, outcome) ==
    IF _is_ffmpeg_installed(outcome) THEN <<>>
    ELSE <<Event("error", r, <<"FFmpeg is not installed or not in your system's PATH.">>)>>

\* lines 31-46 without the `return` of line 44
AfterListdir_NoEarlyReturn(wr, listing) ==
    LET files == Candidates(listing) IN
    [wr EXCEPT !.listing = listing, !.video_files = files,
               !.total_videos = Len(files), !.pc = "loop"]

\* lines 31-46: the worker after the first pass over the listing
AfterListdir(wr, listing) ==
    LET files == Candidates(listing) IN
    [wr EXCEPT !.listing = listing,
               !.video_files = files,
               !.total_videos = Len(files),
               !.pc = IF Len(files) = 0 THEN "returned" ELSE "loop"]

ListdirEvents(r, listing) ==
    LET total == Len(Candidates(listing)) IN
    IF total = 0
    THEN <<Event("progress", r, <<"No video files found in the selected directory.">>),
           Event("finished", r, <<"Conversion process completed (no videos to convert).">>)>>
    ELSE <<Event("progress", r, <<"Found N video(s). Starting conversion...", total>>)>>

\* lines 50-53 and 65-71: the ffmpeg command for the candidate at index wr.i
Command(wr) ==
    LET filename == wr.video_files[wr.i + 1] IN
    [input |-> join(wr.directory_path, filename),
     output |-> join(wr.directory_path, OutputFilename(filename))]

\* line 55 with the 0-based index i in place of i + 1
ConvertingEvent_ZeroBased(r, wr) ==
    Event("progress", r, <<"Converting", wr.video_files[wr.i + 1], wr.i, wr.total_videos>>)

\* line 55
ConvertingEvent(r, wr) ==
    Event("progress", r,
          <<"Converting", wr.video_files[wr.i + 1], wr.i + 1, wr.total_videos>>)

\* lines 73-81 with a `return` in the CalledProcessError handler
AfterOutcome_StopOnFailure(wr, outcome) ==
    LET done == [wr EXCEPT !.results = Append(@, outcome)] IN
    CASE outcome = "ok" ->
           [done EXCEPT !.converted_count = @ + 1, !.i = @ + 1, !.pc = "loop"]
      [] outcome = "nonzero" -> [done EXCEPT !.pc = "returned"]
      [] outcome = "notfound" -> [done EXCEPT !.pc = "returned"]
      [] OTHER -> [done EXCEPT !.pc = "raised"]

\* lines 73-81 without the `return` in the FileNotFoundError handler
AfterOutcome_GoOnWhenMissing(wr, outcome) ==
    LET done == [wr EXCEPT !.results = Append(@, outcome)] IN
    CASE outcome = "ok" ->
           [done EXCEPT !.converted_count = @ + 1, !.i = @ + 1, !.pc = "loop"]
      [] outcome = "nonzero" -> [done EXCEPT !.i = @ + 1, !.pc = "loop"]
      [] outcome = "notfound" -> [done EXCEPT !.i = @ + 1, !.pc = "loop"]
      [] OTHER -> [done EXCEPT !.pc = "raised"]

\* lines 73-81: the worker once subprocess.run has returned or raised
AfterOutcome(wr, outcome) ==
    LET done == [wr EXCEPT !.results = Append(@, outcome)] IN
    CASE outcome = "ok" ->
           [done EXCEPT !.converted_count = @ + 1, !.i = @ + 1, !.pc = "loop"]
      [] outcome = "nonzero" -> [done EXCEPT !.i = @ + 1, !.pc = "loop"]
      [] outcome = "notfound" -> [done EXCEPT !.pc = "returned"]
      [] OTHER -> [done EXCEPT !.pc = "raised"]

\* lines 75, 77-78, 80: what the outcome of one invocation emits
OutcomeEvents(r, wr, outcome) ==
    LET filename == wr.video_files[wr.i + 1] IN
    CASE outcome = "ok" ->
           <<Event("progress", r,
                   <<"Successfully converted", filename, OutputFilename(filename)>>)>>
      [] outcome = "nonzero" ->
           <<Event("progress", r, <<"Error converting", filename, "stderr">>),
             Event("error", r, <<"Failed to convert", filename, "stderr">>)>>
      [] outcome = "notfound" -> <<Event("error", r, <<"FFmpeg command not found.">>)>>
      [] OTHER -> <<>>

\* line 83 reporting the loop index in place of converted_count
FinishedEvent_LoopCount(r, wr) ==
    Event("finished", r,
          <<"Conversion process completed. Converted X of Y videos.", wr.i, wr.total_videos>>)

\* line 83
FinishedEvent(r, wr) ==
    Event("finished", r,
          <<"Conversion process completed. Converted X of Y videos.",
            wr.converted_count, wr.total_videos>>)

\* How the process may go on once run() has ended in state pc: an exception
\* that leaves run() either ends the thread silently or has the binding abort
\* the process; a QThread the shell no longer references (a later
\* _start_conversion overwrote self.worker_thread) is released as soon as its
\* run() returns, which may destroy it while Qt still counts it as running.
Aborts(r, pc) ==
    IF pc = "raised" \/ (pc = "returned" /\ worker_thread # r) THEN BOOLEAN ELSE {FALSE}

\* one step of worker r: its new fields and the signals it emitted in the step
WorkerStep(r, wr, events) ==
    /\ workers' = [workers EXCEPT ![r] = wr]
    /\ queue' = queue \o events
    /\ emitted' = [emitted EXCEPT ![r] = @ \o events]
    /\ aborted' \in Aborts(r, wr.pc)
    /\ UNCHANGED shellVars

\* line 88: `ffmpeg -version` is launched
PreflightLaunch(r) ==
    /\ ~aborted
    /\ workers[r].pc = "preflight"
    /\ \E launch \in {"spawned", "notfound", "oserror"} :
         CASE launch = "spawned" ->
                WorkerStep(r, [workers[r] EXCEPT !.pc = "preflight_wait"], <<>>)
           [] launch = "notfound" ->
                WorkerStep(r, AfterPreflight(workers[r], "notfound"),
                           PreflightEvents(r, "notfound"))
           [] OTHER ->
                WorkerStep(r, [workers[r] EXCEPT !.preflight = "oserror", !.pc = "raised"],
                           <<>>)

\* line 88: `ffmpeg -version` exits
PreflightReturn(r) ==
    /\ ~aborted
    /\ workers[r].pc = "preflight_wait"
    /\ \E outcome \in {"ok", "nonzero"} :
         WorkerStep(r, AfterPreflight(workers[r], outcome), PreflightEvents(r, outcome))

\* lines 36-46: os.listdir returns a listing or raises
ListDir(r) ==
    /\ ~aborted
    /\ workers[r].pc = "listdir"
    /\ \/ \E n \in 0..MaxListing :
            WorkerStep(r, AfterListdir(workers[r], Listing(n)), ListdirEvents(r, Listing(n)))
       \/ WorkerStep(r, [workers[r] EXCEPT !.pc = "raised"], <<>>)

\* lines 36-46, the listing drawn from NameListings
ListDirNames(r) ==
    /\ ~aborted
    /\ workers[r].pc = "listdir"
    /\ \/ \E listing \in NameListings :
            WorkerStep(r, AfterListdir(workers[r], listing), ListdirEvents(r, listing))
       \/ WorkerStep(r, [workers[r] EXCEPT !.pc = "raised"], <<>>)

\* lines 49-73: the next candidate is announced and ffmpeg is launched for it
ConvertLaunch(r) ==
    LET wr == workers[r]
        called == [wr EXCEPT !.invoked = Append(@, Command(wr))]
    IN
    /\ ~aborted
    /\ wr.pc = "loop"
    /\ wr.i < wr.total_videos
    /\ \E launch \in {"spawned", "notfound", "oserror"} :
         IF launch = "spawned"
         THEN WorkerStep(r, [called EXCEPT !.pc = "convert_wait"], <<ConvertingEvent(r, wr)>>)
         ELSE WorkerStep(r, AfterOutcome(called, launch),
                         <<ConvertingEvent(r, wr)>> \o OutcomeEvents(r, wr, launch))

\* lines 73-78: ffmpeg exits
ConvertReturn(r) ==
    /\ ~aborted
    /\ workers[r].pc = "convert_wait"
    /\ \E outcome \in {"ok", "nonzero"} :
         WorkerStep(r, AfterOutcome(workers[r], outcome),
                    OutcomeEvents(r, workers[r], outcome))

\* line 83: the loop is exhausted
Finish(r) ==
    /\ ~aborted
    /\ workers[r].pc = "loop"
    /\ workers[r].i = workers[r].total_videos
    /\ WorkerStep(r, [workers[r] EXCEPT !.pc = "returned"], <<FinishedEvent(r, workers[r])>>)

----------------------------------------------------------------------------
(* VideoConverterApp: one action per slot.  The modal boxes and the directory
   picker run a nested event loop: queued signals are still delivered while one
   is open, and the buttons cannot be clicked until every box is dismissed.  The
   picker changes nothing until it returns, so _browse_directory is one step. *)

CancelLine == <<"No directory selected.">>

CancelLines(log) == Cardinality({k \in 1..Len(log) : log[k] = CancelLine})

Dialog(kind, title, msg) == [kind |-> kind, title |-> title, msg |-> msg]

\* lines 145-160; directory is what the picker returned, "" when cancelled
_browse_directory(directory) ==
    /\ ~aborted
    /\ browse_enabled
    /\ dialogs = <<>>
    /\ IF directory # ""
       THEN /\ directory_path' = directory
            /\ path_display' = directory
            /\ convert_enabled' = TRUE
            /\ log_output' = << <<"Directory selected:", directory>> >>
            /\ status_label' = "Directory selected. Click 'Start Conversion'."
       ELSE /\ CancelLines(log_output) < MaxCancelLines
            /\ directory_path' = ""
            /\ path_display' = ""
            /\ convert_enabled' = FALSE
            /\ log_output' = Append(log_output, CancelLine)
            /\ status_label' = "Ready."
    /\ UNCHANGED <<browse_enabled, worker_thread, dialogs, nworkers,
                   workers, queue, aborted, emitted, handled>>

\* lines 162-179: the start button is clicked
_start_conversion ==
    /\ ~aborted
    /\ convert_enabled
    /\ dialogs = <<>>
    /\ nworkers < MaxRuns
    /\ IF directory_path = ""
       THEN /\ dialogs' = Append(dialogs, Dialog("warning", "No Directory",
                                                 <<"Please select a directory first.">>))
            /\ UNCHANGED <<browse_enabled, convert_enabled, log_output, status_label,
                           worker_thread, nworkers, workers>>
       ELSE /\ browse_enabled' = FALSE
            /\ convert_enabled' = FALSE
            /\ log_output' = << <<"Starting video conversion process...">> >>
            /\ status_label' = "Conversion in progress..."
            /\ nworkers' = nworkers + 1
            /\ worker_thread' = nworkers + 1
            /\ workers' = [workers EXCEPT ![nworkers + 1] = NewWorker(directory_path)]
            /\ UNCHANGED dialogs
    /\ UNCHANGED <<directory_path, path_display, queue, aborted, emitted, handled>>

\* an event loop that handles the newest emission first
Dequeue_NewestFirst(q) == [event |-> q[Len(q)], rest |-> SubSeq(q, 1, Len(q) - 1)]

\* the queued emission the GUI thread's event loop handles next, and the rest
Dequeue(q) == [event |-> Head(q), rest |-> Tail(q)]

\* the event loop takes one emission off the queue
Take(kind) ==
    /\ ~aborted
    /\ queue # <<>>
    /\ Dequeue(queue).event.kind = kind
    /\ queue' = Dequeue(queue).rest
    /\ handled' = [handled EXCEPT ![Dequeue(queue).event.run] = Append(@, Dequeue(queue).event)]

\* lines 181-184, for a progress_update emission
_update_log ==
    /\ Take("progress")
    /\ log_output' = Append(log_output, Dequeue(queue).event.msg)
    /\ UNCHANGED <<directory_path, path_display, browse_enabled, convert_enabled,
                   status_label, worker_thread, dialogs, nworkers,
                   workers, aborted, emitted>>

\* lines 186-193, for a conversion_finished emission
_conversion_finished ==
    /\ Take("finished")
    /\ log_output' = Append(log_output, Dequeue(queue).event.msg)
    /\ browse_enabled' = TRUE
    /\ convert_enabled' = IF directory_path # "" THEN TRUE ELSE convert_enabled
    /\ status_label' = "Conversion complete."
    /\ dialogs' = Append(dialogs, Dialog("information", "Conversion Complete",
                                         Dequeue(queue).event.msg))
    /\ UNCHANGED <<directory_path, path_display, worker_thread, nworkers,
                   workers, aborted, emitted>>

\* lines 195-201 without the `if self.directory_path:` of line 198
ConversionError_AlwaysEnables ==
    /\ Take("error")
    /\ log_output' = Append(log_output, <<"ERROR:", Dequeue(queue).event.msg>>)
    /\ browse_enabled' = TRUE
    /\ convert_enabled' = TRUE
    /\ status_label' = "Conversion failed."
    /\ dialogs' = Append(dialogs, Dialog("critical", "Conversion Error",
                                         Dequeue(queue).event.msg))
    /\ UNCHANGED <<directory_path, path_display, worker_thread, nworkers,
                   workers, aborted, emitted>>

\* lines 195-201, for a conversion_error emission
_conversion_error ==
    /\ Take("error")
    /\ log_output' = Append(log_output, <<"ERROR:", Dequeue(queue).event.msg>>)
    /\ browse_enabled' = TRUE
    /\ convert_enabled' = IF directory_path # "" THEN TRUE ELSE convert_enabled
    /\ status_label' = "Conversion failed."
    /\ dialogs' = Append(dialogs, Dialog("critical", "Conversion Error",
                                         Dequeue(queue).event.msg))
    /\ UNCHANGED <<directory_path, path_display, worker_thread, nworkers,
                   workers, aborted, emitted>>

\* the user closes the innermost message box
DismissDialog ==
    /\ ~aborted
    /\ dialogs # <<>>
    /\ dialogs' = SubSeq(dialogs, 1, Len(dialogs) - 1)
    /\ UNCHANGED <<directory_path, path_display, browse_enabled, convert_enabled,
                   log_output, status_label, worker_thread, nworkers,
                   workers, queue, aborted, emitted, handled>>

----------------------------------------------------------------------------

Next ==
    \/ \E directory \in Dirs \cup {""} : _browse_directory(directory)
    \/ _start_conversion
    \/ _update_log
    \/ _conversion_finished
    \/ _conversion_error
    \/ DismissDialog
    \/ \E r \in Runs : PreflightLaunch(r)
    \/ \E r \in Runs : PreflightReturn(r)
    \/ \E r \in Runs : ListDir(r)
    \/ \E r \in Runs : ConvertLaunch(r)
    \/ \E r \in Runs : ConvertReturn(r)
    \/ \E r \in Runs : Finish(r)

Spec == Init /\ [][Next]_vars

----------------------------------------------------------------------------
(* One run: the window right after a directory was chosen and the start button
   clicked, followed through that worker's run() and the handling of its
   signals, the start button not being clicked again. *)

InitRun ==
    /\ directory_path \in Dirs
    /\ path_display = directory_path
    /\ browse_enabled = FALSE
    /\ convert_enabled = FALSE
    /\ log_output = << <<"Starting video conversion process...">> >>
    /\ status_label = "Conversion in progress..."
    /\ worker_thread = 1
    /\ dialogs = <<>>
    /\ nworkers = 1
    /\ workers = [r \in Runs |-> IF r = 1 THEN NewWorker(directory_path) ELSE NoWorker]
    /\ queue = <<>>
    /\ aborted = FALSE
    /\ emitted = [r \in Runs |-> <<>>]
    /\ handled = [r \in Runs |-> <<>>]

NextRun ==
    \/ \E directory \in Dirs \cup {""} : _browse_directory(directory)
    \/ _update_log
    \/ _conversion_finished
    \/ _conversion_error
    \/ DismissDialog
    \/ PreflightLaunch(worker_thread)
    \/ PreflightReturn(worker_thread)
    \/ ListDir(worker_thread)
    \/ ConvertLaunch(worker_thread)
    \/ ConvertReturn(worker_thread)
    \/ Finish(worker_thread)

RunSpec == InitRun /\ [][NextRun]_vars

(* run() alone, over the listings of NameListings: the worker's steps from the
   same initial state, its emissions left queued. *)

NextWorker ==
    \/ PreflightLaunch(worker_thread)
    \/ PreflightReturn(worker_thread)
    \/ ListDirNames(worker_thread)
    \/ ConvertLaunch(worker_thread)
    \/ ConvertReturn(worker_thread)
    \/ Finish(worker_thread)

WorkerSpec == InitRun /\ [][NextWorker]_vars

----------------------------------------------------------------------------
(* Vocabulary of the properties. *)

\* worker r is inside run()
Running(r) == workers[r].pc \notin {"none", "returned", "raised"}

\* an emission of worker r is still queued
Pending(r) == \E k \in 1..Len(queue) : queue[k].run = r

\* A run is in progress from _start_conversion until run() has returned and
\* the shell has handled its last emission.  A run that ended in an exception
\* is counted as still in progress: the shell is never told that it ended.
InProgress(r) == workers[r].pc \notin {"none", "returned"} \/ Pending(r)

\* a converter subprocess of worker r is in flight
InFlight(r) == workers[r].pc \in {"preflight_wait", "convert_wait"}

IsPrefix(s, t) == Len(s) <= Len(t) /\ SubSeq(t, 1, Len(s)) = s

Count(seq, x) == Cardinality({k \in 1..Len(seq) : seq[k] = x})

\* the error emissions that end a run: preflight failed, or ffmpeg vanished
FatalTemplates ==
    {"FFmpeg is not installed or not in your system's PATH.", "FFmpeg command not found."}

IsFatal(e) == e.kind = "error" /\ e.msg[1] \in FatalTemplates

----------------------------------------------------------------------------
(* C1..C10 *)

\* C1 (as claimed): the start control is enabled if and only if a directory is
\* stored and no run is in progress.
C1_ConvertEnabledIffReady ==
    convert_enabled <=> (directory_path # "" /\ \A r \in Runs : ~InProgress(r))

\* C2 (as claimed): at most one worker is inside run() at any time.
C2_AtMostOneWorkerActive == Cardinality({r \in Runs : Running(r)}) <= 1

\* C3: when the invocation for candidate k exits non-zero, the worker emits a
\* progress event and then an error event for k, does not count k as converted,
\* moves on to the next candidate, and, if the converter stayed invocable to the
\* end, has invoked it for every candidate in order and ends with the finished
\* event reporting the count of zero exits.
C3_PerFileFailureIsNotFatal ==
    \A r \in Runs :
      LET wr == workers[r] IN
      \A k \in 1..Len(wr.results) :
        wr.results[k] = "nonzero" =>
          /\ \E j \in 1..(Len(emitted[r]) - 1) :
               /\ emitted[r][j] =
                    Event("progress", r, <<"Error converting", wr.video_files[k], "stderr">>)
               /\ emitted[r][j + 1] =
                    Event("error", r, <<"Failed to convert", wr.video_files[k], "stderr">>)
          /\ wr.converted_count = Count(wr.results, "ok")
          /\ wr.converted_count <= Len(wr.results) - 1
          /\ wr.pc \in {"loop", "convert_wait"} => wr.i >= k
          /\ (\A j \in (k + 1)..Len(wr.results) : wr.results[j] \in {"ok", "nonzero"})
               => /\ wr.pc # "raised"
                  /\ wr.pc = "returned" =>
                       /\ Len(wr.results) = wr.total_videos
                       /\ wr.invoked =
                            [j \in 1..wr.total_videos |->
                               [input |-> join(wr.directory_path, wr.video_files[j]),
                                output |-> join(wr.directory_path,
                                                OutputFilename(wr.video_files[j]))]]
                       /\ emitted[r][Len(emitted[r])] = FinishedEvent(r, wr)

\* a run of two candidates whose first invocation failed and which went on to
\* convert the second and to finish
C3_Witness ==
    \E r \in Runs :
      /\ workers[r].pc = "returned"
      /\ workers[r].results = <<"nonzero", "ok">>

\* C4 (as claimed): only a run-fatal failure opens the critical alert or sets
\* the status to failed; a non-zero exit for one file does neither.
C4_AlertOnlyForFatalFailure ==
    /\ \A k \in 1..Len(dialogs) :
         dialogs[k].kind = "critical" => dialogs[k].msg[1] \in FatalTemplates
    /\ status_label = "Conversion failed." =>
         \E r \in Runs : \E k \in 1..Len(handled[r]) : IsFatal(handled[r][k])

\* C5 (as claimed): no exception leaves run().
C5_NoFaultLeavesRun == \A r \in Runs : workers[r].pc # "raised"

\* C6 (as claimed), in the form a finite run refutes: once the shell's worker
\* has left run() and none of its emissions is queued, nothing more will reach
\* the shell, so the controls must have been given back by then.
C6_EndedRunLeavesShellReady ==
    \A r \in Runs :
      (r = worker_thread /\ ~Running(r) /\ ~Pending(r)) =>
        /\ browse_enabled
        /\ directory_path # "" => convert_enabled

\* C7: when the preflight query fails (not found, or non-zero exit) the run has
\* ended, having emitted exactly one error event and nothing else and invoked
\* the converter for no file.
C7_PreflightFailureEmitsOneError ==
    \A r \in Runs :
      workers[r].preflight \in {"notfound", "nonzero"} =>
        /\ workers[r].pc = "returned"
        /\ emitted[r] =
             <<Event("error", r, <<"FFmpeg is not installed or not in your system's PATH.">>)>>
        /\ workers[r].invoked = <<>>
        /\ workers[r].results = <<>>

C7_Witness ==
    \E r \in Runs : workers[r].preflight = "nonzero" /\ handled[r] = emitted[r]

\* C8: when the converter is not found at candidate k, the run has ended: k is
\* the last candidate an invocation was made for, the "not found" error event
\* is emitted once and is the last event of the run.
C8_MissingConverterEndsRun ==
    \A r \in Runs :
      LET wr == workers[r]
          notFound == Event("error", r, <<"FFmpeg command not found.">>)
      IN
      \A k \in 1..Len(wr.results) :
        wr.results[k] = "notfound" =>
          /\ wr.pc = "returned"
          /\ Len(wr.results) = k
          /\ Len(wr.invoked) = k
          /\ Count(emitted[r], notFound) = 1
          /\ emitted[r][Len(emitted[r])] = notFound

\* the converter vanished at the first of two candidates
C8_Witness ==
    \E r \in Runs :
      /\ workers[r].results = <<"notfound">>
      /\ workers[r].total_videos = 2
      /\ handled[r] = emitted[r]

\* C9 (as claimed): the shell handles a run's events in the order emitted, and no
\* progress event after a finished or error event of the same run.
C9_NoProgressAfterFinishedOrError ==
    \A r \in Runs :
      /\ IsPrefix(handled[r], emitted[r])
      /\ \A j, k \in 1..Len(handled[r]) :
           (j < k /\ handled[r][j].kind \in {"finished", "error"})
             => handled[r][k].kind # "progress"

\* C9 (amended): the shell handles a run's events in the order emitted, and no
\* event at all after the run's finished event or after a run-fatal error event
\* (preflight failed, converter not found); the error event of a per-file
\* failure may be followed by progress events of the same run.
C9_NoEventAfterTerminalEvent ==
    \A r \in Runs :
      /\ IsPrefix(handled[r], emitted[r])
      /\ \A j, k \in 1..Len(handled[r]) :
           (j < k) => (handled[r][j].kind # "finished" /\ ~IsFatal(handled[r][j]))

\* a per-file error event was handled, then progress events, then the finished event
C9_Witness ==
    \E r \in Runs :
      /\ handled[r] = emitted[r]
      /\ \E j, k \in 1..Len(handled[r]) :
           /\ j < k
           /\ handled[r][j].kind = "error"
           /\ handled[r][k].kind = "progress"
      /\ handled[r][Len(handled[r])].kind = "finished"

\* C10 (as claimed): at most one converter subprocess is in flight at any time.
C10_AtMostOneSubprocess == Cardinality({r \in Runs : InFlight(r)}) <= 1

----------------------------------------------------------------------------
(* C11..C18 *)

CountKind(seq, kind) == Cardinality({k \in 1..Len(seq) : seq[k].kind = kind})

\* C11: a run that went through all its Y >= 1 candidates with the converter
\* invocable each time emits exactly one finished event, as its last event,
\* reporting "Converted X of Y" with X the number of zero exits and Y the
\* number of candidates.
C11_FinishedReportsZeroExits ==
    \A r \in Runs :
      LET wr == workers[r] IN
      ( /\ wr.pc = "returned"
        /\ Len(wr.video_files) >= 1
        /\ Len(wr.results) = Len(wr.video_files)
        /\ \A k \in 1..Len(wr.results) : wr.results[k] \in {"ok", "nonzero"} )
      => /\ CountKind(emitted[r], "finished") = 1
         /\ emitted[r][Len(emitted[r])] =
              Event("finished", r,
                    <<"Conversion process completed. Converted X of Y videos.",
                      Count(wr.results, "ok"), Len(wr.video_files)>>)

\* a finished run of two candidates of which exactly one was converted
C11_Witness ==
    \E r \in Runs :
      /\ workers[r].pc = "returned"
      /\ workers[r].results = <<"ok", "nonzero">>
      /\ handled[r] = emitted[r]

\* C12: a run that passed preflight and found no candidate has emitted exactly
\* one progress event and then one finished event, its converted count and its
\* total are 0, and it made no converter invocation for a file.
C12_EmptyCandidateSet ==
    \A r \in Runs :
      LET wr == workers[r] IN
      (wr.preflight = "ok" /\ wr.pc = "returned" /\ wr.video_files = <<>>)
      => /\ emitted[r] =
              <<Event("progress", r, <<"No video files found in the selected directory.">>),
                Event("finished", r,
                      <<"Conversion process completed (no videos to convert).">>)>>
         /\ wr.converted_count = 0
         /\ wr.total_videos = 0
         /\ wr.invoked = <<>>
         /\ wr.results = <<>>

\* a listing without videos was read and both events were handled
C12_Witness ==
    \E r \in Runs :
      /\ workers[r].preflight = "ok"
      /\ workers[r].pc = "returned"
      /\ workers[r].video_files = <<>>
      /\ Len(handled[r]) = 2

IsConverting(e) == e.kind = "progress" /\ e.msg[1] = "Converting"

SuccessGroup(r, filename) ==
    <<Event("progress", r, <<"Successfully converted", filename, OutputFilename(filename)>>)>>

FailureGroup(r, filename) ==
    <<Event("progress", r, <<"Error converting", filename, "stderr">>),
      Event("error", r, <<"Failed to convert", filename, "stderr">>)>>

\* C16: the converter is invoked at most once per candidate, in listing order;
\* the k-th invocation is announced by a progress event carrying position k of
\* N, positions counting up by one from 1; and between the announcements of k
\* and k + 1 lies exactly one outcome of k (its success line, or its failure
\* line and error event).
C16_AnnouncedInOrder ==
    \A r \in Runs :
      LET wr == workers[r]
          em == emitted[r]
          announced == SelectSeq(em, IsConverting)
      IN
      /\ Len(wr.invoked) <= Len(wr.video_files)
      /\ Len(announced) = Len(wr.invoked)
      /\ \A k \in 1..Len(announced) :
           /\ announced[k].msg = <<"Converting", wr.video_files[k], k, Len(wr.video_files)>>
           /\ wr.invoked[k].input = join(wr.directory_path, wr.video_files[k])
      /\ \A j, j2 \in 1..Len(em) :
           ( /\ j < j2
             /\ IsConverting(em[j])
             /\ IsConverting(em[j2])
             /\ \A m \in (j + 1)..(j2 - 1) : ~IsConverting(em[m]) )
           => /\ em[j2].msg[3] = em[j].msg[3] + 1
              /\ SubSeq(em, j + 1, j2 - 1) \in
                   {SuccessGroup(r, em[j].msg[2]), FailureGroup(r, em[j].msg[2])}

\* two candidates were announced and invoked, the first having failed
C16_Witness ==
    \E r \in Runs :
      /\ Len(workers[r].invoked) = 2
      /\ workers[r].results = <<"nonzero", "ok">>
      /\ workers[r].pc = "returned"

\* the seven recognized extensions, as the specification lists them
RecognizedExts ==
    { <<".","m","p","4">>, <<".","m","k","v">>, <<".","a","v","i">>, <<".","m","o","v">>,
      <<".","w","e","b","m">>, <<".","f","l","v">>, <<".","w","m","v">> }

\* the lowercased name ends with a recognized extension
HasRecognizedExt(name) ==
    \E ext \in RecognizedExts :
      /\ Len(name) >= Len(ext)
      /\ \A k \in 1..Len(ext) : lower(name)[Len(name) - Len(ext) + k] = ext[k]

RECURSIVE Recognized(_)
\* the entries with a recognized extension, in listing order
Recognized(listing) ==
    IF listing = <<>> THEN <<>>
    ELSE (IF HasRecognizedExt(Head(listing)) THEN <<Head(listing)>> ELSE <<>>)
           \o Recognized(Tail(listing))

\* C13: the candidates of a run are exactly the entries of its listing whose
\* lowercased name ends with one of the seven extensions, in listing order, and
\* the total counts them and nothing else.
C13_CandidatesAreRecognizedEntries ==
    \A r \in Runs :
      /\ workers[r].video_files = Recognized(workers[r].listing)
      /\ workers[r].pc \in {"loop", "convert_wait"} =>
           workers[r].total_videos = Len(Recognized(workers[r].listing))

\* the listing clip-like: an upper-case video and a text file
C13_Witness ==
    \E r \in Runs :
      /\ workers[r].listing = << <<"c",".","M","P","4">>, <<"n",".","t","x","t">> >>
      /\ workers[r].video_files = << <<"c",".","M","P","4">> >>
      /\ workers[r].pc = "returned"

\* the GIF files the zero-exit invocations of run r wrote
GifsWritten(r) ==
    {workers[r].invoked[k].output :
       k \in {j \in 1..Len(workers[r].results) : workers[r].results[j] = "ok"}}

\* C14 (as claimed): the invocations of a run for distinct candidates write to
\* distinct output paths, and the run has written as many GIF files as it
\* counts conversions.
C14_OneGifPerConvertedCandidate ==
    \A r \in Runs :
      LET wr == workers[r] IN
      /\ \A j, k \in 1..Len(wr.invoked) :
           j # k => wr.invoked[j].output # wr.invoked[k].output
      /\ Cardinality(GifsWritten(r)) = wr.converted_count

\* C18: the output path of every invocation differs from the input path of
\* every candidate of the run.
C18_OutputIsNeverASource ==
    \A r \in Runs :
      LET wr == workers[r] IN
      \A k \in 1..Len(wr.invoked) : \A j \in 1..Len(wr.video_files) :
        wr.invoked[k].output # join(wr.directory_path, wr.video_files[j])

\* a.gif lay beside a.mp4: it was no candidate, and a.mp4 was converted onto it
C18_Witness ==
    \E r \in Runs :
      /\ workers[r].listing = << <<"a",".","g","i","f">>, <<"a",".","m","p","4">> >>
      /\ workers[r].results = <<"ok">>
      /\ workers[r].invoked[1].output = join(workers[r].directory_path, <<"a",".","g","i","f">>)

\* C15 (as claimed): while the shell's worker is inside run(), the shell
\* stores the directory that worker was started with.
C15_DirectoryFixedDuringRun ==
    \A r \in Runs :
      (r = worker_thread /\ Running(r)) => directory_path = workers[r].directory_path

\* C17: whenever the start control is enabled a directory is stored, so the
\* "No Directory" warning of _start_conversion is never shown.
C17_EnabledStartHasDirectory ==
    /\ convert_enabled => directory_path # ""
    /\ \A k \in 1..Len(dialogs) : dialogs[k].kind # "warning"

\* an error event was handled after the picker had been cancelled: the start
\* control stayed disabled although the browse control was given back
C17_Witness ==
    /\ status_label = "Conversion failed."
    /\ directory_path = ""
    /\ browse_enabled
    /\ ~convert_enabled

====
